---- MODULE Spec2Model ----
(***************************************************************************)
(* DenStreamWithDBSCAN (src/cluster/denstream.py): a scikit-learn style    *)
(* estimator that forwards vectors to MOA's WithDBSCAN clusterer through   *)
(* a py4j gateway.                                                         *)
(*                                                                         *)
(* The estimator object is the record `self`; the Java object behind       *)
(* self._clusterer is the record `clusterer` (the option values it was     *)
(* given and the instances it was trained on, in order).  Each public      *)
(* method is an operator from a "world" [self, clusterer, calls, result]   *)
(* to a world, and one action of Next.                                     *)
(*                                                                         *)
(* Numbers: float parameters are held in hundredths (epsilon 0.02 is 2),   *)
(* coordinates of vectors in halves (1.5 is 3), so that the (int) cast of  *)
(* Instance.classValue() is a real truncation.                             *)
(***************************************************************************)
EXTENDS Integers, Sequences, FiniteSets, TLC

VARIABLES pc, self, clusterer, calls, result, frame, lastOp, lastLabels, reads

vars == <<pc, self, clusterer, calls, result, frame, lastOp, lastLabels, reads>>

\* ---------------------------------------------------------------- bounds
\* size of a batch handed to one call: its vectors plus all their elements
MaxSize == 5
\* instances an estimator is given room for
MaxInstances == 3
\* consecutive reads of labels_ followed
MaxReads == 2

\* coordinates, in halves: -1.0 and 1.5
Values == {-2, 3}

RECURSIVE SeqsUpTo(_, _)
SeqsUpTo(S, n) ==
    IF n = 0 THEN {<<>>}
    ELSE LET shorter == SeqsUpTo(S, n - 1)
         IN shorter \cup {Append(s, x) : s \in {t \in shorter : Len(t) = n - 1}, x \in S}

\* the vectors a batch can hold
Vectors == SeqsUpTo(Values, MaxSize - 1)

\* the iterables of vectors of size at most n
RECURSIVE BatchesWithin(_)
BatchesWithin(n) ==
    {<<>>} \cup
    UNION {{<<v>> \o rest : rest \in BatchesWithin(n - 1 - Len(v))} :
              v \in {u \in Vectors : 1 + Len(u) <= n}}

Batches == BatchesWithin(MaxSize)

\* ------------------------------------------------------- python outcomes
None == [kind |-> "none", type |-> "NoneType", err |-> "none", value |-> <<>>]
Return(t, v) == [kind |-> "return", type |-> t, err |-> "none", value |-> v]
Raise(e) == [kind |-> "raise", type |-> "exception", err |-> e, value |-> <<>>]

\* ------------------------------------------------------------ __init__
\* the constructor's defaults; d is the one required argument
DefaultParams(d) ==
    [dimensions |-> d, window_range |-> 1000, epsilon |-> 2, beta |-> 20,
     mu |-> 100, number_intialization_points |-> 1000,
     offline_multiplier |-> 200, lambda_ |-> 25, processing_speed |-> 100]

Dimensions == {-1, 0, 1}

\* the argument lists the constructor is called with
Params ==
    {DefaultParams(d) : d \in Dimensions}
    \cup {[DefaultParams(1) EXCEPT !.epsilon = e] : e \in {-1, 0}}
    \cup {[DefaultParams(1) EXCEPT !.beta = 150]}
    \cup {[DefaultParams(1) EXCEPT !.processing_speed = 0]}

NoSelf ==
    [_dimensions |-> 0, _window_range |-> 0, _epsilon |-> 0, _beta |-> 0,
     _mu |-> 0, _number_intialization_points |-> 0, _offline_multiplier |-> 0,
     _lambda_ |-> 0, _processing_speed |-> 0, _header |-> 0,
     _instances |-> <<>>]

NoOptions ==
    [horizonOption |-> 0, epsilonOption |-> 0, betaOption |-> 0, muOption |-> 0,
     initPointsOption |-> 0, offlineOption |-> 0, lambdaOption |-> 0,
     speedOption |-> 0]

NoClusterer == [options |-> NoOptions, trained |-> <<>>]

\* _generate_header: one attribute per i in range(dimensions), none when
\* dimensions <= 0; the header is held as its number of attributes (the
\* class index is that number minus one).
_generate_header(dimensions) == IF dimensions > 0 THEN dimensions ELSE 0

\* the assignments of __init__ to the fields of the new object
InitSelf(p) ==
    [_dimensions |-> p.dimensions, _window_range |-> p.window_range,
     _epsilon |-> p.epsilon, _beta |-> p.beta, _mu |-> p.mu,
     _number_intialization_points |-> p.number_intialization_points,
     _offline_multiplier |-> p.offline_multiplier, _lambda_ |-> p.lambda_,
     _processing_speed |-> p.processing_speed,
     _header |-> _generate_header(p.dimensions), _instances |-> <<>>]

\* Option.setValue of the WithDBSCAN option objects (the clusterer named at
\* line 4 of denstream.py): a FloatOption or ranged IntOption rejects a value
\* outside its declared range with IllegalArgumentException.
\*   epsilon [0,1]  beta [0,1]  mu [0,inf)  offline [2,20]  lambda [0,1]
\*   processingSpeed [1,1000]; horizon and initPoints are unranged.
OptionAccepts(name, v) ==
    CASE name = "epsilonOption" -> v >= 0 /\ v <= 100
      [] name = "betaOption" -> v >= 0 /\ v <= 100
      [] name = "muOption" -> v >= 0
      [] name = "offlineOption" -> v >= 200 /\ v <= 2000
      [] name = "lambdaOption" -> v >= 0 /\ v <= 100
      [] name = "speedOption" -> v >= 1 /\ v <= 1000
      [] OTHER -> TRUE

\* the setValue calls of _initialize_clusterer, in the order they are made
OptionOrder ==
    <<"horizonOption", "epsilonOption", "betaOption", "muOption",
      "initPointsOption", "offlineOption", "lambdaOption", "speedOption">>

\* a slip in the forwarding: beta's option set from epsilon and back
OptionSource_swapped(s) ==
    [horizonOption |-> s._window_range, epsilonOption |-> s._beta,
     betaOption |-> s._epsilon, muOption |-> s._mu,
     initPointsOption |-> s._number_intialization_points,
     offlineOption |-> s._offline_multiplier, lambdaOption |-> s._lambda_,
     speedOption |-> s._processing_speed]

\* the property each option is set from
OptionSource(s) ==
    [horizonOption |-> s._window_range, epsilonOption |-> s._epsilon,
     betaOption |-> s._beta, muOption |-> s._mu,
     initPointsOption |-> s._number_intialization_points,
     offlineOption |-> s._offline_multiplier, lambdaOption |-> s._lambda_,
     speedOption |-> s._processing_speed]

\* _initialize_clusterer: a new WithDBSCAN, options set one by one, then
\* resetLearning().  The first rejected value aborts with the gateway's error.
_initialize_clusterer(s) ==
    LET src == OptionSource(s)
        rejected == {i \in 1..Len(OptionOrder) :
                        ~OptionAccepts(OptionOrder[i], src[OptionOrder[i]])}
    IN IF rejected = {}
       THEN [result |-> Return("WithDBSCAN", <<>>),
             clusterer |-> [options |-> src, trained |-> <<>>]]
       ELSE [result |-> Raise("Py4JJavaError"), clusterer |-> NoClusterer]

\* __init__: fields, gateway, header, clusterer, empty instance list
__init__(p) ==
    LET s == InitSelf(p)
        c == _initialize_clusterer(s)
    IN [self |-> s, clusterer |-> c.clusterer, calls |-> <<"__init__">>,
        result |-> IF c.result.kind = "raise" THEN c.result ELSE None]

\* ------------------------------------------------------ _create_instance
\* instance.setValue(index, number) for each element of the vector, in order;
\* DenseInstance stores into a double[numAttributes], so an index past the
\* end is an ArrayIndexOutOfBoundsException surfaced by the gateway.
RECURSIVE SetValues(_, _, _)
SetValues(instance, vector, index) ==
    IF index >= Len(vector) THEN Return("DenseInstance", instance)
    ELSE IF index >= Len(instance) THEN Raise("Py4JJavaError")
    ELSE SetValues([instance EXCEPT ![index + 1] = vector[index + 1]],
                   vector, index + 1)

\* DenseInstance(float(dimensions)) allocates dimensions zeros (a negative
\* size is a NegativeArraySizeException), then the values are stored.
_create_instance(s, vector) ==
    IF s._dimensions < 0 THEN Raise("Py4JJavaError")
    ELSE SetValues([i \in 1..s._dimensions |-> 0], vector, 0)

\* ----------------------------------------------------------- partial_fit
\* one iteration per vector: create, train, append; an exception leaves the
\* loop with everything done so far in place
RECURSIVE partial_fit_loop(_, _)
partial_fit_loop(w, X) ==
    IF X = <<>> THEN [w EXCEPT !.result = None]
    ELSE LET instance == _create_instance(w.self, Head(X))
         IN IF instance.kind = "raise"
            THEN [w EXCEPT !.result = instance]
            ELSE partial_fit_loop(
                   [w EXCEPT !.clusterer.trained = Append(@, instance.value),
                             !.calls = Append(@, "trainOnInstanceImpl"),
                             !.self._instances = Append(@, instance.value)],
                   Tail(X))

Reverse(X) == [i \in 1..Len(X) |-> X[Len(X) + 1 - i]]

\* a loop that walks the batch from its end
partial_fit_reversed(w, X) ==
    partial_fit_loop([w EXCEPT !.calls = Append(@, "partial_fit")], Reverse(X))

\* a loop that trains but forgets self._instances.append(instance)
partial_fit_no_append(w, X) ==
    [partial_fit_loop([w EXCEPT !.calls = Append(@, "partial_fit")], X)
        EXCEPT !.self._instances = w.self._instances]

partial_fit(w, X) ==
    partial_fit_loop([w EXCEPT !.calls = Append(@, "partial_fit")], X)

\* a fit that feeds the batch twice
fit_twice(w, X) ==
    LET once == partial_fit([w EXCEPT !.calls = Append(@, "fit")], X)
    IN IF once.result.kind = "raise" THEN once ELSE partial_fit(once, X)

\* fit
fit(w, X) == partial_fit([w EXCEPT !.calls = Append(@, "fit")], X)

\* ------------------------------------------------- get_clustering_result
\* Instance.classValue(): the attribute at the class index (the last one);
\* with no attributes the class index is -1 and the read is out of bounds.
\* The label is the value cast to int (truncation towards zero).
Trunc(v) == IF v >= 0 THEN v \div 2 ELSE -((-v) \div 2)

\* Clustering.classValues(points): distinct non-noise labels numbered in
\* order of first appearance, the noise label -1 put last.  The map is a
\* sequence of <<label, index>> pairs in insertion order.
RECURSIVE classValuesLoop(_, _, _)
classValuesLoop(points, classes, hasnoise) ==
    IF points = <<>>
    THEN IF hasnoise THEN Append(classes, <<-1, Len(classes)>>) ELSE classes
    ELSE LET label == Trunc(Head(points)[Len(Head(points))])
         IN IF label = -1
            THEN classValuesLoop(Tail(points), classes, TRUE)
            ELSE IF \E i \in 1..Len(classes) : classes[i][1] = label
            THEN classValuesLoop(Tail(points), classes, hasnoise)
            ELSE classValuesLoop(Tail(points),
                                 Append(classes, <<label, Len(classes)>>),
                                 hasnoise)

\* iteration order of the returned java.util.HashMap: by bucket
\* (hash & 15; -1 hashes into bucket 0), insertion order within a bucket
Bucket(k) == IF k = -1 THEN 0 ELSE k % 16

RECURSIVE HashOrder(_, _)
HashOrder(classes, b) ==
    IF b > 15 THEN <<>>
    ELSE SelectSeq(classes, LAMBDA e : Bucket(e[1]) = b) \o HashOrder(classes, b + 1)

classValues(points) ==
    IF \E i \in 1..Len(points) : Len(points[i]) = 0
    THEN Raise("Py4JJavaError")
    ELSE Return("dict", HashOrder(classValuesLoop(points, <<>>, FALSE), 0))

\* a read that drains the instance list it has just labelled
get_clustering_result_consuming(w) ==
    [w EXCEPT !.calls = @ \o <<"get_clustering_result", "getClusteringResult",
                               "classValues">>,
              !.result = classValues(w.self._instances),
              !.self._instances = <<>>]

\* a read that resets the clusterer's learning
get_clustering_result_resetting(w) ==
    [w EXCEPT !.calls = @ \o <<"get_clustering_result", "getClusteringResult",
                               "classValues">>,
              !.result = classValues(w.self._instances),
              !.clusterer.trained = <<>>]

\* get_clustering_result:
\*   self._clusterer.getClusteringResult().classValues(self._instances)
get_clustering_result(w) ==
    [w EXCEPT !.calls = @ \o <<"get_clustering_result", "getClusteringResult",
                               "classValues">>,
              !.result = classValues(w.self._instances)]

\* labels_: the values of the mapping, as a list
labels_(w) ==
    LET r == get_clustering_result([w EXCEPT !.calls = Append(@, "labels_")])
    IN IF r.result.kind = "raise" THEN r
       ELSE [r EXCEPT !.result =
                Return("list", [i \in 1..Len(r.result.value) |-> r.result.value[i][2]])]

\* fit_predict: fit, then labels_ unless fit raised
fit_predict(w, X) ==
    LET f == fit([w EXCEPT !.calls = Append(@, "fit_predict")], X)
    IN IF f.result.kind = "raise" THEN f ELSE labels_(f)

\* ---------------------------------------------------------------- system
\* pc: "new" before the constructor has run, "failed" when it raised,
\* "ready" between calls, "running" once a call's argument is bound and its
\* body has not yet run.  frame is the running call (method and batch);
\* lastOp, calls and result describe the call that returned last: its name
\* and the number of vectors it was given, the calls it made, its outcome.
\* lastLabels is what labels_ returned since the last fitting call, reads
\* the number of such reads.
World == [self |-> self, clusterer |-> clusterer, calls |-> <<>>, result |-> None]

Install(w) ==
    /\ self' = w.self
    /\ clusterer' = w.clusterer
    /\ calls' = w.calls
    /\ result' = w.result

NoFrame == [name |-> "none", X |-> <<>>]
NoOp == [name |-> "none", n |-> 0, args |-> <<>>]
Done(name, X) == [name |-> name, n |-> Len(X), args |-> <<>>]

Init ==
    /\ pc = "new"
    /\ self = NoSelf
    /\ clusterer = NoClusterer
    /\ calls = <<>>
    /\ result = None
    /\ frame = NoFrame
    /\ lastOp = NoOp
    /\ lastLabels = None
    /\ reads = 0

\* DenStreamWithDBSCAN(**p)
Construct ==
    /\ pc = "new"
    /\ \E p \in Params :
         LET w == __init__(p)
         IN /\ IF w.result.kind = "raise"
               THEN /\ pc' = "failed"
                    /\ self' = NoSelf
                    /\ clusterer' = NoClusterer
               ELSE /\ pc' = "ready"
                    /\ self' = w.self
                    /\ clusterer' = w.clusterer
            /\ calls' = w.calls
            /\ result' = w.result
            /\ lastOp' = [name |-> "__init__", n |-> 0, args |-> <<p>>]
    /\ UNCHANGED <<frame, lastLabels, reads>>

\* the batches explored from the current state
Room(X) == Len(self._instances) + Len(X) <= MaxInstances

\* the caller invokes one of the fitting methods on a batch
Call ==
    /\ pc = "ready"
    /\ \E name \in {"partial_fit", "fit", "fit_predict"}, X \in Batches :
         /\ Room(X)
         /\ frame' = [name |-> name, X |-> X]
    /\ pc' = "running"
    /\ calls' = <<>>
    /\ result' = None
    /\ lastOp' = NoOp
    /\ lastLabels' = None
    /\ reads' = 0
    /\ UNCHANGED <<self, clusterer>>

PartialFit ==
    /\ pc = "running"
    /\ frame.name = "partial_fit"
    /\ Install(partial_fit(World, frame.X))
    /\ lastOp' = Done("partial_fit", frame.X)
    /\ frame' = NoFrame
    /\ pc' = "ready"
    /\ UNCHANGED <<lastLabels, reads>>

Fit ==
    /\ pc = "running"
    /\ frame.name = "fit"
    /\ Install(fit(World, frame.X))
    /\ lastOp' = Done("fit", frame.X)
    /\ frame' = NoFrame
    /\ pc' = "ready"
    /\ UNCHANGED <<lastLabels, reads>>

FitPredict ==
    /\ pc = "running"
    /\ frame.name = "fit_predict"
    /\ Install(fit_predict(World, frame.X))
    /\ lastOp' = Done("fit_predict", frame.X)
    /\ frame' = NoFrame
    /\ pc' = "ready"
    /\ lastLabels' = IF "labels_" \in {calls'[i] : i \in 1..Len(calls')}
                     THEN result' ELSE None
    /\ reads' = IF "labels_" \in {calls'[i] : i \in 1..Len(calls')} THEN 1 ELSE 0

Labels ==
    /\ pc = "ready"
    /\ reads < MaxReads
    /\ Install(labels_(World))
    /\ lastOp' = Done("labels_", <<>>)
    /\ lastLabels' = result'
    /\ reads' = reads + 1
    /\ UNCHANGED <<pc, frame>>

GetClusteringResult ==
    /\ pc = "ready"
    /\ Install(get_clustering_result(World))
    /\ lastOp' = Done("get_clustering_result", <<>>)
    /\ UNCHANGED <<pc, frame, lastLabels, reads>>

Next ==
    \/ Construct
    \/ Call
    \/ PartialFit
    \/ Fit
    \/ FitPredict
    \/ Labels
    \/ GetClusteringResult

Spec == Init /\ [][Next]_vars

TypeOK ==
    /\ pc \in {"new", "ready", "running", "failed"}
    /\ reads \in 0..MaxReads
    /\ (pc = "running") = (frame # NoFrame)

\* ------------------------------------------------------------ vocabulary
Range(q) == {q[i] : i \in 1..Len(q)}
Count(q, x) == Cardinality({i \in 1..Len(q) : q[i] = x})
IsPrefix(a, b) == Len(a) <= Len(b) /\ SubSeq(b, 1, Len(a)) = a

\* the estimator after the step, as a world
Post == [self |-> self', clusterer |-> clusterer', calls |-> calls', result |-> result']
\* what a caller can observe of a world
Visible(w) == <<w.self, w.clusterer, w.result>>

\* a vector the gateway refuses: it has more elements than the instance has
\* attributes, or the instance cannot be allocated at all
Refused(s, v) == s._dimensions < 0 \/ Len(v) > s._dimensions
\* a vector as stored: its elements, then zeros up to the dimensionality
Padded(s, v) == [i \in 1..s._dimensions |-> IF i <= Len(v) THEN v[i] ELSE 0]
\* index of the first refused vector of a batch, Len + 1 when there is none
FirstRefused(s, X) ==
    IF \E i \in 1..Len(X) : Refused(s, X[i])
    THEN CHOOSE i \in 1..Len(X) :
            Refused(s, X[i]) /\ \A j \in 1..(i - 1) : ~Refused(s, X[j])
    ELSE Len(X) + 1
\* the instances a batch contributes, in order
Absorbed(s, X) == [i \in 1..(FirstRefused(s, X) - 1) |-> Padded(s, X[i])]

\* a point the specification calls invalid: its length is not the dimensionality
WrongDimension(s, v) == Len(v) # s._dimensions
FirstWrong(s, X) ==
    CHOOSE i \in 1..Len(X) :
        WrongDimension(s, X[i]) /\ \A j \in 1..(i - 1) : ~WrongDimension(s, X[j])

\* the configuration the specification calls valid
ValidConfig(s) ==
    /\ s._dimensions > 0
    /\ s._epsilon > 0
    /\ s._beta > 0 /\ s._beta <= 100
    /\ s._mu > 0
    /\ s._number_intialization_points >= 0
    /\ s._offline_multiplier > 0
    /\ s._lambda_ > 0
    /\ s._processing_speed > 0

Config(s) ==
    <<s._dimensions, s._window_range, s._epsilon, s._beta, s._mu,
      s._number_intialization_points, s._offline_multiplier, s._lambda_,
      s._processing_speed>>

\* ---------------------------------------------------------------- claims
\* the step that runs the body of the named method
Running(name) == pc = "running" /\ frame.name = name

\* C1: a partial_fit call trains the clusterer on the points of X one at a
\* time in the order of X, after whatever was trained before (so the training
\* sequence is the concatenation of the batches), and never asks the
\* clusterer for its clustering result.
C1_ArrivalOrder ==
    [][Running("partial_fit") =>
         /\ clusterer'.trained = clusterer.trained \o Absorbed(self, frame.X)
         /\ ((\A i \in 1..Len(frame.X) : Len(frame.X[i]) = self._dimensions)
               => clusterer'.trained = clusterer.trained \o frame.X)
         /\ Count(calls', "trainOnInstanceImpl") = Len(Absorbed(self, frame.X))
         /\ "getClusteringResult" \notin Range(calls')
         /\ "labels_" \notin Range(calls')]_vars

C1_Witness ==
    /\ lastOp.name = "partial_fit"
    /\ lastOp.n = 2
    /\ result = None
    /\ Len(clusterer.trained) = 3
    /\ clusterer.trained[2] # clusterer.trained[3]
    /\ \A i \in 1..3 : 0 \notin Range(clusterer.trained[i])

\* C2: on a validly configured estimator, partial_fit with a single point
\* whose length differs from the dimensionality raises and leaves the stored
\* instances and the clusterer's training as they were before the call.
C2_WrongDimensionRaises ==
    [][(/\ Running("partial_fit")
        /\ ValidConfig(self)
        /\ Len(frame.X) = 1
        /\ WrongDimension(self, frame.X[1]))
       => /\ result'.kind = "raise"
          /\ self'._instances = self._instances
          /\ clusterer'.trained = clusterer.trained]_vars

\* C3: on a validly configured estimator, a partial_fit whose batch holds a
\* point of the wrong length fails at the first such point: the points before
\* it are absorbed and nothing after it is.
C3_StopsAtFirstInvalid ==
    [][(/\ Running("partial_fit")
        /\ ValidConfig(self)
        /\ \E i \in 1..Len(frame.X) : WrongDimension(self, frame.X[i]))
       => /\ result'.kind = "raise"
          /\ clusterer'.trained =
                clusterer.trained \o SubSeq(frame.X, 1, FirstWrong(self, frame.X) - 1)]_vars

\* C4: reading the labels of a validly configured estimator that has
\* absorbed no point raises instead of returning a mapping.
C4_EmptyReadRaises ==
    (/\ lastOp.name \in {"labels_", "get_clustering_result"}
     /\ ValidConfig(self)
     /\ self._instances = <<>>)
    => result.kind = "raise"

\* C5: construction with an invalid parameter raises, so every estimator
\* that exists has a valid configuration.
C5_InvalidConfigRejected ==
    /\ (lastOp.name = "__init__" /\ ~ValidConfig(InitSelf(lastOp.args[1])))
          => (result.kind = "raise" /\ pc = "failed")
    /\ pc \in {"ready", "running"} => ValidConfig(self)

\* C6: a read of labels_ that follows another with no partial_fit, fit or
\* fit_predict in between returns what the earlier read returned.
C6_ReadIdempotent ==
    [][(lastOp'.name = "labels_" /\ lastLabels # None) => result' = lastLabels]_vars

C6_Witness ==
    /\ reads = 2
    /\ lastOp.name = "labels_"
    /\ result.kind = "return"
    /\ Len(result.value) >= 2

\* C7: fit(X) is exactly one partial_fit(X); fit_predict(X) is that followed
\* by one read of labels_ (none when the fit raised): same estimator
\* afterwards, same outcome.
C7_FitIsPartialFit ==
    [][/\ Running("fit") =>
            /\ Visible(Post) = Visible(partial_fit(World, frame.X))
            /\ Count(calls', "partial_fit") = 1
            /\ "labels_" \notin Range(calls')
       /\ Running("fit_predict") =>
            LET fitted == partial_fit(World, frame.X)
            IN /\ Count(calls', "partial_fit") = 1
               /\ IF fitted.result.kind = "raise"
                  THEN /\ Visible(Post) = Visible(fitted)
                       /\ "labels_" \notin Range(calls')
                  ELSE /\ Visible(Post) = Visible(labels_(fitted))
                       /\ Count(calls', "labels_") = 1]_vars

C7_Witness ==
    /\ lastOp.name = "fit_predict"
    /\ lastOp.n >= 1
    /\ Len(self._instances) > lastOp.n
    /\ result.kind = "return"
    /\ Len(result.value) >= 2

\* C8: the constructor stores its arguments and forwards them to the
\* clusterer's options, and no later call changes either.
C8_ConfigImmutable ==
    [][/\ (lastOp'.name = "__init__" /\ pc' = "ready") =>
            LET p == lastOp'.args[1]
            IN /\ Config(self') = <<p.dimensions, p.window_range, p.epsilon, p.beta,
                                    p.mu, p.number_intialization_points,
                                    p.offline_multiplier, p.lambda_, p.processing_speed>>
               /\ clusterer'.options =
                    [horizonOption |-> p.window_range, epsilonOption |-> p.epsilon,
                     betaOption |-> p.beta, muOption |-> p.mu,
                     initPointsOption |-> p.number_intialization_points,
                     offlineOption |-> p.offline_multiplier,
                     lambdaOption |-> p.lambda_, speedOption |-> p.processing_speed]
       /\ pc \in {"ready", "running"} =>
            /\ pc' \in {"ready", "running"}
            /\ Config(self') = Config(self)
            /\ self'._header = self._header
            /\ clusterer'.options = clusterer.options]_vars

C8_Witness ==
    /\ pc = "ready"
    /\ lastOp.name = "labels_"
    /\ Len(self._instances) >= 2
    /\ self._epsilon = 2
    /\ clusterer.options.epsilonOption = 2
    /\ clusterer.options.betaOption = 20

\* C9: a read (labels_ or get_clustering_result) asks the clusterer for its
\* clustering result and changes neither the instance list, the clusterer's
\* training nor the configuration, so any partial_fit after it does what it
\* would have done without the read.
C9_ReadOnly ==
    [][lastOp'.name \in {"labels_", "get_clustering_result"} =>
         /\ self' = self
         /\ clusterer' = clusterer
         /\ "getClusteringResult" \in Range(calls')
         /\ \A X \in {B \in Batches : Room(B)} :
               Visible(partial_fit([Post EXCEPT !.calls = <<>>], X))
                 = Visible(partial_fit(World, X))]_vars

C9_Witness ==
    /\ lastOp.name = "get_clustering_result"
    /\ result.kind = "return"
    /\ Len(result.value) >= 2
    /\ Len(self._instances) >= 2

\* C10: after every step, a partial_fit that raised part-way included, the
\* instance list is exactly the sequence the clusterer was trained on, and
\* the list only grows at its end.
C10_InstancesAreTrained ==
    [][/\ self'._instances = clusterer'.trained
       /\ IsPrefix(self._instances, self'._instances)]_vars

C10_Witness ==
    /\ lastOp.name = "partial_fit"
    /\ lastOp.n = 2
    /\ result.kind = "raise"
    /\ Count(calls, "trainOnInstanceImpl") = 1
    /\ Len(self._instances) >= 2
====
